---- MODULE Spec2Model ----
(***************************************************************************)
(* Model of dlrover's NodeManager (master/node/node_manager.py): the node  *)
(* index, the monitor thread (list reconciliation + watch stream), the     *)
(* per-event state machine, the relaunch policy, stop() and                *)
(* remove_training_nodes().                                                *)
(***************************************************************************)
EXTENDS Integers, Sequences, FiniteSets, TLC

(***************************************************************************)
(* Bounds of the model.                                                    *)
(***************************************************************************)
\* total number of events (watch events + snapshot entries) the monitor handles
MaxEvents == 3
\* longest list snapshot
MaxListLen == 2
\* relaunch_on_worker_failure given to the constructor (max_relaunch_count of
\* workers and chiefs)
RelaunchOnWorkerFailure == 0
\* ps_relaunch_max_num given to the constructor (max_relaunch_count of PS)
PsRelaunchMaxNum == 1
\* number of registered NodeEventCallback subscribers
NumSubscribers == 2

(***************************************************************************)
(* Program constants.                                                      *)
(***************************************************************************)
_MAX_POD_RELAUNCH_COUNT == 5
\* NodeResourceLimit.MAX_MEMORY, in MB
MAX_MEMORY == 65536

Min(a, b) == IF a < b THEN a ELSE b

(***************************************************************************)
(* NodeType, NodeStatus, NodeEventType, NodeExitReason.                    *)
(***************************************************************************)
NodeType == {"worker", "ps", "chief", "evaluator"}
NodeStatus == {"INITIAL", "PENDING", "RUNNING", "SUCCEEDED", "FAILED", "DELETED"}
NodeEventType == {"ADDED", "MODIFIED", "DELETED"}
NodeExitReason == {"NONE", "KILLED", "OOM", "FATAL_ERROR", "UNKNOWN"}

\* The node index self._job_nodes, flattened to (type, id) keys.
NodeKeys == {<<"ps", 0>>, <<"chief", 0>>}
\* A pod of the job that the index does not know.
UnknownKey == <<"worker", 1>>
EventKeys == NodeKeys \cup {UnknownKey}

\* statuses and exit reasons the watcher reports in a NodeSnapshot
EventStatus == {"PENDING", "RUNNING", "SUCCEEDED", "FAILED", "DELETED"}
EventExitReason == {"NONE", "KILLED", "OOM", "FATAL_ERROR"}
\* used_resource.memory readings, in MB: below, at and above MAX_MEMORY
MemoryReadings == {8192, 65536, 70000}

NodeName(k) == k

(***************************************************************************)
(* status_flow: the transition table and its lookup.                       *)
(***************************************************************************)
Flow(from, to, types, relaunch) ==
    [from_status |-> from, to_status |-> to, event_type |-> types,
     should_relaunch |-> relaunch]

NoFlow == [from_status |-> "-", to_status |-> "-", event_type |-> {},
           should_relaunch |-> FALSE]

NODE_STATE_FLOWS ==
    { Flow("INITIAL", "PENDING", {"ADDED", "MODIFIED"}, FALSE),
      Flow("INITIAL", "RUNNING", {"ADDED", "MODIFIED"}, FALSE),
      Flow("PENDING", "RUNNING", {"ADDED", "MODIFIED"}, FALSE),
      Flow("PENDING", "SUCCEEDED", {"ADDED", "MODIFIED"}, FALSE),
      Flow("PENDING", "FAILED", {"ADDED", "MODIFIED"}, TRUE),
      Flow("RUNNING", "SUCCEEDED", {"ADDED", "MODIFIED"}, FALSE),
      Flow("RUNNING", "FAILED", {"ADDED", "MODIFIED"}, TRUE),
      Flow("INITIAL", "DELETED", {"DELETED"}, TRUE),
      Flow("PENDING", "DELETED", {"DELETED"}, TRUE),
      Flow("RUNNING", "DELETED", {"DELETED"}, TRUE),
      Flow("SUCCEEDED", "DELETED", {"DELETED"}, FALSE),
      Flow("FAILED", "DELETED", {"DELETED"}, FALSE) }

\* get_node_state_flow(old_status, event_type, new_status): the entry for
\* (old_status, event_type) whose target is new_status, or None.
get_node_state_flow(old_status, event_type, new_status) ==
    LET hits == { f \in NODE_STATE_FLOWS :
                    /\ f.from_status = old_status
                    /\ event_type \in f.event_type
                    /\ f.to_status = new_status }
    IN IF hits = {} THEN NoFlow ELSE CHOOSE f \in hits : TRUE

(***************************************************************************)
(* Node record (watcher.base_watcher.Node) and its mutators.               *)
(***************************************************************************)
\* max_relaunch_count set by init_job_node_meta / set_critical_node
max_relaunch_count(k) ==
    IF k[1] = "ps" THEN Min(PsRelaunchMaxNum, _MAX_POD_RELAUNCH_COUNT)
    ELSE Min(RelaunchOnWorkerFailure, _MAX_POD_RELAUNCH_COUNT)

\* critical flag set by set_critical_node: PS (ps_is_critical) and the chief
InitCritical(k) == k[1] \in {"ps", "chief"}

InitNode(k) ==
    [status |-> "INITIAL", exit_reason |-> "NONE", relaunch_count |-> 0,
     max_relaunch_count |-> max_relaunch_count(k), memory |-> 0,
     is_recovered_oom |-> FALSE, critical |-> InitCritical(k),
     relaunchable |-> TRUE, is_released |-> FALSE]

update_status(node, s) == [node EXCEPT !.status = s]
set_exit_reason(node, r) == [node EXCEPT !.exit_reason = r]
inc_relaunch_count(node) == [node EXCEPT !.relaunch_count = @ + 1]

(***************************************************************************)
(* NodeManager._process_event, the part under self._lock.                  *)
(***************************************************************************)
\* (variant: the status is left as it was)
ApplyEventStatus_Skipped(node, event) == node

\* new_status = event.node.status; cur_node.update_status(new_status)
ApplyEventStatus(node, event) == update_status(node, event.status)

\* "If there is no matched state change, return directly;
\*  if the pod has been succeed, return directly"
FlowIgnored(flow) == flow = NoFlow \/ flow.from_status = "SUCCEEDED"

\* _process_node_events: which callback of the subscribers is dispatched
CallbackKind(flow) ==
    IF flow.to_status = "RUNNING" THEN "on_node_started"
    ELSE IF flow.to_status = "SUCCEEDED" THEN "on_node_succeeded"
    ELSE IF flow.to_status = "FAILED" THEN "on_node_failed"
    ELSE IF /\ flow.from_status # "FAILED"
            /\ flow.from_status # "SUCCEEDED"
            /\ flow.to_status = "DELETED" THEN "on_node_deleted"
    ELSE "none"

\* (variant: self._relaunch_pod is not consulted)
RelaunchVerdict_IgnoresRelaunchPod(node, flow, relaunch_pod) ==
    IF ~(flow.should_relaunch /\ node.relaunchable) THEN FALSE
    ELSE IF node.exit_reason = "FATAL_ERROR" THEN FALSE
    ELSE IF node.exit_reason = "OOM" THEN
        IF node.memory > MAX_MEMORY THEN FALSE
        ELSE IF node.relaunch_count >= node.max_relaunch_count THEN FALSE
        ELSE TRUE
    ELSE IF node.exit_reason # "KILLED" THEN
        ~(node.relaunch_count > node.max_relaunch_count)
    ELSE TRUE

\* (variant: the OOM budget test lets one more relaunch through)
RelaunchVerdict_OomOffByOne(node, flow, relaunch_pod) ==
    IF ~(flow.should_relaunch /\ relaunch_pod /\ node.relaunchable) THEN FALSE
    ELSE IF node.exit_reason = "FATAL_ERROR" THEN FALSE
    ELSE IF node.exit_reason = "OOM" THEN
        IF node.memory > MAX_MEMORY THEN FALSE
        ELSE IF node.relaunch_count > node.max_relaunch_count THEN FALSE
        ELSE TRUE
    ELSE IF node.exit_reason # "KILLED" THEN
        ~(node.relaunch_count > node.max_relaunch_count)
    ELSE TRUE

\* _should_relaunch: the verdict
RelaunchVerdict(node, flow, relaunch_pod) ==
    IF ~(flow.should_relaunch /\ relaunch_pod /\ node.relaunchable) THEN FALSE
    ELSE IF node.exit_reason = "FATAL_ERROR" THEN FALSE
    ELSE IF node.exit_reason = "OOM" THEN
        IF node.memory > MAX_MEMORY THEN FALSE
        ELSE IF node.relaunch_count >= node.max_relaunch_count THEN FALSE
        ELSE TRUE
    ELSE IF node.exit_reason # "KILLED" THEN
        ~(node.relaunch_count > node.max_relaunch_count)
    ELSE TRUE

\* _should_relaunch: the node it leaves behind
_should_relaunch(node, flow, relaunch_pod) ==
    LET v == RelaunchVerdict(node, flow, relaunch_pod)
        oom == IF v /\ node.exit_reason = "OOM"
               THEN [node EXCEPT !.is_recovered_oom = TRUE] ELSE node
    IN [verdict |-> v, node |-> IF v THEN inc_relaunch_count(oom) ELSE oom]

\* The section of _process_event under the lock, given the old_status it
\* read: the node afterwards, the callback dispatched, the relaunch verdict.
\* raiser = 0: no subscriber raises; raiser = i: the i-th subscriber raises.
LockedSection(node, old_status, event, relaunch_pod, raiser) ==
    LET flow == get_node_state_flow(old_status, event.event_type, event.status)
        n1 == ApplyEventStatus(node, event)
        n2 == set_exit_reason(n1, event.exit_reason)
        cb == CallbackKind(flow)
        r == _should_relaunch(n2, flow, relaunch_pod)
    IN IF FlowIgnored(flow)
       THEN [node |-> n1, callback |-> "none", invoked |-> 0,
             relaunch |-> FALSE, raised |-> FALSE]
       ELSE IF cb # "none" /\ raiser > 0
       THEN [node |-> n2, callback |-> cb, invoked |-> raiser,
             relaunch |-> FALSE, raised |-> TRUE]
       ELSE [node |-> r.node, callback |-> cb,
             invoked |-> IF cb = "none" THEN 0 ELSE NumSubscribers,
             relaunch |-> r.verdict, raised |-> FALSE]

\* the subscribers that may raise while the event is dispatched: none when no
\* callback is dispatched for it
Raisers(old_status, event) ==
    LET flow == get_node_state_flow(old_status, event.event_type, event.status)
    IN IF FlowIgnored(flow) \/ CallbackKind(flow) = "none"
       THEN {0} ELSE 0..NumSubscribers

(***************************************************************************)
(* _process_list_nodes (second loop) and remove_training_nodes conditions. *)
(***************************************************************************)
\* (variant: only RUNNING nodes count as deleted without the event)
ReleaseCondition_RunningOnly(node, k, exist) ==
    /\ node.status = "RUNNING"
    /\ ~node.is_released
    /\ k \notin exist

\* node.status != INITIAL and not node.is_released and id not in exist_pods
ReleaseCondition(node, k, exist) ==
    /\ node.status # "INITIAL"
    /\ ~node.is_released
    /\ k \notin exist

\* the nodes remove_training_nodes walks: workers, then PS
TrainingNodeKeys == { k \in NodeKeys : k[1] \in {"worker", "ps"} }

\* (variant: released nodes are removed again)
RemoveCondition_IgnoresReleased(node) ==
    node.status \in {"RUNNING", "PENDING"}

\* node.status in [RUNNING, PENDING] and not node.is_released
RemoveCondition(node) ==
    /\ node.status \in {"RUNNING", "PENDING"}
    /\ ~node.is_released

RemoveNode(node) ==
    [node EXCEPT !.critical = FALSE, !.relaunchable = FALSE,
                 !.is_released = TRUE, !.status = "DELETED"]

(***************************************************************************)
(* stop() and all_critical_node_completed().                               *)
(***************************************************************************)
\* (variant: stop() releases the nodes and leaves them critical)
StopNode_KeepsCritical(node) == [node EXCEPT !.is_released = TRUE]

\* stop(): node.critical = False; node.is_released = True
StopNode(node) == [node EXCEPT !.critical = FALSE, !.is_released = TRUE]

\* all_critical_node_completed on the index `nodes`: no critical node is
\* INITIAL, PENDING or RUNNING
all_critical_node_completed(nodes) ==
    LET alive_critical_nodes ==
            { k \in DOMAIN nodes :
                /\ nodes[k].critical
                /\ nodes[k].status \in {"INITIAL", "PENDING", "RUNNING"} }
    IN alive_critical_nodes = {}

(***************************************************************************)
(* self._lock = threading.Lock()                                           *)
(***************************************************************************)
\* (variant: the thread that holds the lock may take it again, as with RLock)
CanAcquire_Reentrant(holder, thread) == holder = "free" \/ holder = thread

\* `with self._lock`: threading.Lock is not re-entrant, so the lock is taken
\* only when nobody holds it, the asking thread included
CanAcquire(holder, thread) == holder = "free"

(***************************************************************************)
(* State.                                                                  *)
(***************************************************************************)
VARIABLES
    job_nodes,               \* self._job_nodes
    relaunch_pod,            \* self._relaunch_pod
    stop_monitor,            \* self._stop_monitor
    lock,                    \* holder of self._lock: "free", "monitor"
    pending_relaunch_count,  \* self._pending_relaunch_count
    mon_pc,                  \* position of the node_monitor thread
    mon_src,                 \* who called _process_event: "list" or "watch"
    mon_key,                 \* (type, id) of the event _process_event is working on
    mon_old_status,          \* old_status read by _process_event
    exist_pods,              \* exist_pods of the running _process_list_nodes
    stop_pc,                 \* position of the thread calling stop()
    events_left,             \* events the watcher still delivers
    last_cb,                 \* callback dispatch made by the last step
    last_relaunch,           \* node handed to _relaunch_typed_pod by the last step
    rtn_result,              \* outcome of remove_training_nodes, if the last step
    deleted_fired,           \* per node: dispatches of on_node_deleted so far
    ever_terminal,           \* per node: status was FAILED or SUCCEEDED at some time
    began_after_stop,        \* the event in hand entered _process_event after stop() returned
    list_initial,            \* nodes that were INITIAL when the running _process_list_nodes began
    dup,                     \* duplicate-delivery run: the event delivered and the node after its first processing
    pol,                     \* policy run: the arguments and the result of the _should_relaunch call
    mon_event,               \* step-by-step run: the event _process_event is working on
    cb_seen                  \* step-by-step run: the node as the callbacks of the last dispatch received it

vars == <<job_nodes, relaunch_pod, stop_monitor, lock, pending_relaunch_count,
          mon_pc, mon_src, mon_key, mon_old_status, exist_pods, stop_pc,
          events_left, last_cb, last_relaunch, rtn_result, deleted_fired,
          ever_terminal, began_after_stop, list_initial, dup, pol, mon_event, cb_seen>>

\* wait_pending_relaunch given to the constructor
wait_pending_relaunch == TRUE

NoCb == [kind |-> "none", key |-> <<"-", 0>>, invoked |-> 0]
NoKey == <<"-", 0>>
\* outcome of a remove_training_nodes call: the names appended to the local
\* plan.removed_nodes, whether the caller received None, the plan it received
NoCall == [called |-> FALSE, plan_removed_nodes |-> {}, returned_none |-> FALSE,
           returned_removed_nodes |-> {}]

NoEvent == [event_type |-> "-", key |-> <<"-", 0>>, status |-> "-",
            exit_reason |-> "-"]
NoDup == [stage |-> "-", event |-> NoEvent, once |-> InitNode(<<"-", 0>>)]
NoSeen == InitNode(<<"-", 0>>)
NoPol == [stage |-> "-", key |-> NoKey, flow |-> NoFlow,
          before |-> InitNode(<<"-", 0>>), verdict |-> FALSE]

NodeEvents ==
    [event_type : NodeEventType, key : EventKeys, status : EventStatus,
     exit_reason : EventExitReason]

\* what the watcher delivers: it reads the exit reason off a terminated
\* container, so only a FAILED or DELETED snapshot carries one
WatcherEvents ==
    { e \in NodeEvents :
        e.status \in {"PENDING", "RUNNING", "SUCCEEDED"} => e.exit_reason = "NONE" }

\* the coordinator after start()
InitStarted ==
    /\ job_nodes = [k \in NodeKeys |-> InitNode(k)]
    /\ relaunch_pod = TRUE
    /\ stop_monitor = FALSE
    /\ lock = "free"
    /\ pending_relaunch_count = 0
    /\ mon_pc = "reconcile"
    /\ mon_src = "-"
    /\ mon_key = NoKey
    /\ mon_old_status = "-"
    /\ exist_pods = {}
    /\ stop_pc = "idle"
    /\ events_left = MaxEvents
    /\ last_cb = NoCb
    /\ last_relaunch = NoKey
    /\ rtn_result = NoCall
    /\ deleted_fired = [k \in NodeKeys |-> 0]
    /\ ever_terminal = [k \in NodeKeys |-> FALSE]
    /\ began_after_stop = FALSE
    /\ list_initial = NodeKeys
    /\ mon_event = NoEvent
    /\ cb_seen = NoSeen

Init ==
    /\ InitStarted
    /\ dup = NoDup
    /\ pol = NoPol

\* history: a node's status is FAILED or SUCCEEDED in the next state
NoteTerminal ==
    ever_terminal' = [k \in NodeKeys |->
        ever_terminal[k] \/ job_nodes'[k].status \in {"FAILED", "SUCCEEDED"}]

\* a step that dispatches nothing and returns nothing
Silent ==
    /\ last_cb' = NoCb
    /\ last_relaunch' = NoKey
    /\ rtn_result' = NoCall

\* where the monitor goes when _process_event returns normally
AfterEvent(src) == IF src = "list" THEN "reconcile" ELSE "watch"
\* where it goes when _process_event raises: _monitor_nodes catches the
\* exception around a watch event only; _process_list_nodes is called outside
\* the try block, so the exception ends the thread.
AfterException(src) == IF src = "list" THEN "crashed" ELSE "watch"

(***************************************************************************)
(* The monitor thread: _monitor_nodes, _process_list_nodes, _process_event *)
(***************************************************************************)
\* _process_event up to the read of old_status under the lock, for an event
\* naming node k, called from `src`. Nothing reads the other fields of the
\* event before ProcessLocked, which is where the model draws them.
BeginEvent(k, src) ==
    /\ events_left > 0
    /\ events_left' = events_left - 1
    /\ IF k \notin NodeKeys
       THEN \* self._job_nodes[node_type][node_id] raises KeyError
            /\ mon_pc' = AfterException(src)
            /\ UNCHANGED <<lock, mon_src, mon_key, mon_old_status,
                           began_after_stop>>
       ELSE /\ CanAcquire(lock, "monitor")
            /\ lock' = "monitor"
            /\ began_after_stop' = (stop_pc = "done")
            /\ mon_src' = src
            /\ mon_key' = k
            /\ mon_old_status' = job_nodes[k].status
            /\ mon_pc' = "pe_locked"
    /\ Silent
    /\ UNCHANGED <<job_nodes, relaunch_pod, stop_monitor,
                   pending_relaunch_count, stop_pc, deleted_fired, ever_terminal,
                   list_initial, dup, pol, mon_event, cb_seen>>

\* first loop of _process_list_nodes: the next node of the snapshot
ReconcileNext ==
    /\ mon_pc = "reconcile"
    /\ Cardinality(exist_pods) < MaxListLen
    /\ \E k \in EventKeys \ exist_pods :
          /\ exist_pods' = exist_pods \cup {k}
          /\ BeginEvent(k, "list")

\* a watch event arrives on the stream
WatchEvent ==
    /\ mon_pc = "watch"
    /\ \E k \in EventKeys : BeginEvent(k, "watch")
    /\ UNCHANGED exist_pods

\* the events _process_event may be holding: a snapshot node is wrapped as
\* DELETED if its status is DELETED, else as MODIFIED
EventsInFlight(k, src) ==
    { e \in WatcherEvents :
        /\ e.key = k
        /\ src = "list" =>
             e.event_type = (IF e.status = "DELETED" THEN "DELETED" ELSE "MODIFIED") }

\* _process_event from update_status to the release of the lock
ProcessLocked ==
    /\ mon_pc = "pe_locked"
    /\ \E e \in EventsInFlight(mon_key, mon_src) :
       \E raiser \in Raisers(mon_old_status, e) :
         LET k == mon_key
             res == LockedSection(job_nodes[k], mon_old_status, e,
                                  relaunch_pod, raiser)
         IN /\ job_nodes' = [job_nodes EXCEPT ![k] = res.node]
            /\ last_cb' = IF res.callback = "none" THEN NoCb
                          ELSE [kind |-> res.callback, key |-> k,
                                invoked |-> res.invoked]
            /\ deleted_fired' =
                 IF res.callback = "on_node_deleted"
                 THEN [deleted_fired EXCEPT ![k] = @ + 1] ELSE deleted_fired
            /\ pending_relaunch_count' =
                 IF res.relaunch /\ wait_pending_relaunch
                 THEN pending_relaunch_count + 1 ELSE pending_relaunch_count
            /\ mon_pc' = IF res.raised THEN AfterException(mon_src)
                         ELSE IF res.relaunch THEN "pe_relaunch"
                         ELSE AfterEvent(mon_src)
            /\ mon_key' = IF res.relaunch THEN mon_key ELSE NoKey
            /\ mon_src' = IF res.relaunch THEN mon_src ELSE "-"
    /\ lock' = "free"
    /\ mon_old_status' = "-"
    /\ last_relaunch' = NoKey
    /\ rtn_result' = NoCall
    /\ NoteTerminal
    /\ began_after_stop' = FALSE
    /\ UNCHANGED <<relaunch_pod, stop_monitor, exist_pods, stop_pc,
                   events_left, list_initial, dup, pol, mon_event, cb_seen>>

\* if should_relaunch: self._relaunch_typed_pod(cur_node), outside the lock
ProcessRelaunch ==
    /\ mon_pc = "pe_relaunch"
    /\ last_relaunch' = mon_key
    /\ last_cb' = NoCb
    /\ rtn_result' = NoCall
    /\ mon_key' = NoKey
    /\ mon_src' = "-"
    /\ mon_pc' = AfterEvent(mon_src)
    /\ UNCHANGED <<job_nodes, relaunch_pod, stop_monitor, lock,
                   pending_relaunch_count, mon_old_status, exist_pods,
                   stop_pc, events_left, deleted_fired, ever_terminal,
                   began_after_stop, list_initial, dup, pol, mon_event, cb_seen>>

\* second loop of _process_list_nodes: nodes deleted without the event are
\* released; then _monitor_nodes reads self._stop_monitor and leaves the loop
\* or opens the watch stream
ReconcileRelease ==
    /\ mon_pc = "reconcile"
    /\ job_nodes' = [k \in NodeKeys |->
          IF ReleaseCondition(job_nodes[k], k, exist_pods)
          THEN [job_nodes[k] EXCEPT !.is_released = TRUE] ELSE job_nodes[k]]
    /\ exist_pods' = {}
    /\ mon_pc' = IF stop_monitor THEN "exited" ELSE "watch"
    /\ list_initial' = {}
    /\ Silent
    /\ UNCHANGED <<relaunch_pod, stop_monitor, lock, pending_relaunch_count,
                   mon_src, mon_key, mon_old_status, stop_pc,
                   events_left, deleted_fired, ever_terminal, began_after_stop,
                   dup, pol, mon_event, cb_seen>>

\* the watch stream ends, or raises (then the loop sleeps 30 s): the loop
\* calls self._node_watcher.list() and _process_list_nodes again
WatchEnds ==
    /\ mon_pc = "watch"
    /\ mon_pc' = "reconcile"
    /\ list_initial' = { k \in NodeKeys : job_nodes[k].status = "INITIAL" }
    /\ Silent
    /\ UNCHANGED <<job_nodes, relaunch_pod, stop_monitor, lock,
                   pending_relaunch_count, mon_src, mon_key, mon_old_status,
                   exist_pods, stop_pc, events_left, deleted_fired,
                   ever_terminal, began_after_stop, dup, pol, mon_event, cb_seen>>

(***************************************************************************)
(* Calls from other threads.                                               *)
(***************************************************************************)
\* stop(): self._relaunch_pod = False
StopClearRelaunch ==
    /\ stop_pc = "idle"
    /\ relaunch_pod' = FALSE
    /\ stop_pc' = "marking"
    /\ Silent
    /\ UNCHANGED <<job_nodes, stop_monitor, lock, pending_relaunch_count,
                   mon_pc, mon_src, mon_key, mon_old_status, exist_pods,
                   events_left, deleted_fired, ever_terminal,
                   began_after_stop, list_initial, dup, pol, mon_event, cb_seen>>

\* the thread that runs stop(): the monitor thread when a subscriber called
\* it from inside a callback, else a thread of the caller
StopThread == IF mon_pc = "in_callback" THEN "monitor" ELSE "caller"

\* stop(): with self._lock, every node critical = False, is_released = True
StopMarkNodes ==
    /\ stop_pc = "marking"
    /\ CanAcquire(lock, StopThread)
    /\ job_nodes' = [k \in NodeKeys |-> StopNode(job_nodes[k])]
    /\ stop_pc' = "flagging"
    /\ Silent
    /\ UNCHANGED <<relaunch_pod, stop_monitor, lock, pending_relaunch_count,
                   mon_pc, mon_src, mon_key, mon_old_status, exist_pods,
                   events_left, deleted_fired, ever_terminal,
                   began_after_stop, list_initial, dup, pol, mon_event, cb_seen>>

\* stop(): self._stop_monitor = True, and the call returns
StopSetFlag ==
    /\ stop_pc = "flagging"
    /\ stop_monitor' = TRUE
    /\ stop_pc' = "done"
    /\ Silent
    /\ UNCHANGED <<job_nodes, relaunch_pod, lock, pending_relaunch_count,
                   mon_pc, mon_src, mon_key, mon_old_status, exist_pods,
                   events_left, deleted_fired, ever_terminal,
                   began_after_stop, list_initial, dup, pol, mon_event, cb_seen>>

\* remove_training_nodes(): no lock is taken; the function has no return
\* statement, so the caller receives None
RemoveTrainingNodes ==
    LET hit == { k \in TrainingNodeKeys : RemoveCondition(job_nodes[k]) }
    IN /\ job_nodes' = [k \in NodeKeys |->
             IF k \in hit THEN RemoveNode(job_nodes[k]) ELSE job_nodes[k]]
       /\ rtn_result' = [called |-> TRUE,
                         plan_removed_nodes |-> { NodeName(k) : k \in hit },
                         returned_none |-> TRUE,
                         returned_removed_nodes |-> {}]
       /\ last_cb' = NoCb
       /\ last_relaunch' = NoKey
       /\ UNCHANGED <<relaunch_pod, stop_monitor, lock, pending_relaunch_count,
                      mon_pc, mon_src, mon_key, mon_old_status, exist_pods,
                      stop_pc, events_left, deleted_fired, ever_terminal,
                      began_after_stop, list_initial, dup, pol, mon_event, cb_seen>>

Next ==
    \/ ReconcileNext
    \/ ReconcileRelease
    \/ WatchEvent
    \/ WatchEnds
    \/ ProcessLocked
    \/ ProcessRelaunch
    \/ StopClearRelaunch
    \/ StopMarkNodes
    \/ StopSetFlag
    \/ RemoveTrainingNodes

Spec == Init /\ [][Next]_vars

(***************************************************************************)
(* Duplicate delivery: _process_event applied twice to the same event, from *)
(* any state of the node.                                                  *)
(***************************************************************************)
\* largest relaunch_count a drawn node starts with
MaxStartCount == 2

\* node records of the node k of the index
NodeStates(k) ==
    [status : NodeStatus, exit_reason : NodeExitReason,
     relaunch_count : 0..MaxStartCount,
     max_relaunch_count : {max_relaunch_count(k)},
     memory : MemoryReadings,
     is_recovered_oom : BOOLEAN, critical : {InitCritical(k)},
     relaunchable : BOOLEAN, is_released : BOOLEAN]

InitDup ==
    /\ \E k \in NodeKeys : \E n \in NodeStates(k) :
          job_nodes = [j \in NodeKeys |-> IF j = k THEN n ELSE InitNode(j)]
    /\ relaunch_pod \in BOOLEAN
    /\ stop_monitor = FALSE
    /\ lock = "free"
    /\ pending_relaunch_count = 0
    /\ mon_pc = "watch"
    /\ mon_src = "-"
    /\ mon_key = NoKey
    /\ mon_old_status = "-"
    /\ exist_pods = {}
    /\ stop_pc = "idle"
    /\ events_left = 2
    /\ last_cb = NoCb
    /\ last_relaunch = NoKey
    /\ rtn_result = NoCall
    /\ deleted_fired = [k \in NodeKeys |-> 0]
    /\ ever_terminal = [k \in NodeKeys |-> FALSE]
    /\ began_after_stop = FALSE
    /\ list_initial = {}
    /\ dup = [NoDup EXCEPT !.stage = "fresh"]
    /\ pol = NoPol
    /\ mon_event = NoEvent
    /\ cb_seen = NoSeen

\* _process_event(e) run to its end on the node e names
DeliverTo(e, raiser) ==
    LET k == e.key
        res == LockedSection(job_nodes[k], job_nodes[k].status, e,
                             relaunch_pod, raiser)
    IN /\ job_nodes' = [job_nodes EXCEPT ![k] = res.node]
       /\ last_cb' = IF res.callback = "none" THEN NoCb
                     ELSE [kind |-> res.callback, key |-> k,
                           invoked |-> res.invoked]
       /\ last_relaunch' = IF res.relaunch THEN k ELSE NoKey
       /\ pending_relaunch_count' =
            IF res.relaunch /\ wait_pending_relaunch
            THEN pending_relaunch_count + 1 ELSE pending_relaunch_count
       /\ events_left' = events_left - 1
       /\ UNCHANGED <<relaunch_pod, stop_monitor, lock,
                      mon_pc, mon_src, mon_key, mon_old_status, exist_pods,
                      stop_pc, rtn_result, deleted_fired, ever_terminal,
                      began_after_stop, list_initial, pol, mon_event, cb_seen>>

\* the watcher delivers an event
DeliverFirst ==
    /\ dup.stage = "fresh"
    /\ \E e \in NodeEvents :
          /\ e.key \in NodeKeys
          /\ \E raiser \in Raisers(job_nodes[e.key].status, e) :
                DeliverTo(e, raiser)
          /\ dup' = [stage |-> "once", event |-> e, once |-> job_nodes'[e.key]]

\* the watcher delivers the same event again
DeliverAgain ==
    /\ dup.stage = "once"
    /\ \E raiser \in Raisers(job_nodes[dup.event.key].status, dup.event) :
          DeliverTo(dup.event, raiser)
    /\ dup' = [dup EXCEPT !.stage = "twice"]

NextDup == DeliverFirst \/ DeliverAgain

SpecDup == InitDup /\ [][NextDup]_vars

\* the same deliveries to the coordinator as start() leaves it
InitFirstEvent ==
    /\ InitStarted
    /\ dup = [NoDup EXCEPT !.stage = "fresh"]
    /\ pol = NoPol

SpecFirstEvent == InitFirstEvent /\ [][NextDup]_vars

(***************************************************************************)
(* The relaunch policy alone: _should_relaunch called on any node, with    *)
(* any flow of the table and either value of self._relaunch_pod.           *)
(***************************************************************************)
InitPolicy ==
    /\ \E k \in NodeKeys : \E n \in NodeStates(k) :
          job_nodes = [j \in NodeKeys |-> IF j = k THEN n ELSE InitNode(j)]
    /\ relaunch_pod \in BOOLEAN
    /\ stop_monitor = FALSE
    /\ lock = "free"
    /\ pending_relaunch_count = 0
    /\ mon_pc = "watch"
    /\ mon_src = "-"
    /\ mon_key = NoKey
    /\ mon_old_status = "-"
    /\ exist_pods = {}
    /\ stop_pc = "idle"
    /\ events_left = 0
    /\ last_cb = NoCb
    /\ last_relaunch = NoKey
    /\ rtn_result = NoCall
    /\ deleted_fired = [k \in NodeKeys |-> 0]
    /\ ever_terminal = [k \in NodeKeys |-> FALSE]
    /\ began_after_stop = FALSE
    /\ list_initial = {}
    /\ dup = NoDup
    /\ pol = [NoPol EXCEPT !.stage = "fresh"]
    /\ mon_event = NoEvent
    /\ cb_seen = NoSeen

\* should_relaunch = self._should_relaunch(cur_node, status_change_flow)
EvaluatePolicy ==
    /\ pol.stage = "fresh"
    /\ \E k \in NodeKeys : \E flow \in NODE_STATE_FLOWS :
          LET r == _should_relaunch(job_nodes[k], flow, relaunch_pod)
          IN /\ job_nodes' = [job_nodes EXCEPT ![k] = r.node]
             /\ pol' = [stage |-> "done", key |-> k, flow |-> flow,
                        before |-> job_nodes[k], verdict |-> r.verdict]
    /\ UNCHANGED <<relaunch_pod, stop_monitor, lock, pending_relaunch_count,
                   mon_pc, mon_src, mon_key, mon_old_status, exist_pods,
                   stop_pc, events_left, last_cb, last_relaunch, rtn_result,
                   deleted_fired, ever_terminal, began_after_stop,
                   list_initial, dup, mon_event, cb_seen>>

NextPolicy == EvaluatePolicy

SpecPolicy == InitPolicy /\ [][NextPolicy]_vars

(***************************************************************************)
(* The locked section of _process_event taken statement by statement, so   *)
(* that the calls that take no lock can fall between its statements.       *)
(***************************************************************************)
\* the flow _process_event looked up for the event in hand
FlowInHand ==
    get_node_state_flow(mon_old_status, mon_event.event_type, mon_event.status)

\* cur_node.update_status(new_status); return when no flow applies, else
\* cur_node.set_exit_reason(event.node.exit_reason)
WriteStatus ==
    /\ mon_pc = "pe_locked"
    /\ \E e \in EventsInFlight(mon_key, mon_src) :
         LET k == mon_key
             flow == get_node_state_flow(mon_old_status, e.event_type, e.status)
             n1 == ApplyEventStatus(job_nodes[k], e)
         IN IF FlowIgnored(flow)
            THEN /\ job_nodes' = [job_nodes EXCEPT ![k] = n1]
                 /\ mon_pc' = AfterEvent(mon_src)
                 /\ lock' = "free"
                 /\ mon_event' = NoEvent
                 /\ mon_key' = NoKey
                 /\ mon_src' = "-"
                 /\ mon_old_status' = "-"
                 /\ began_after_stop' = FALSE
            ELSE /\ job_nodes' = [job_nodes EXCEPT
                                    ![k] = set_exit_reason(n1, e.exit_reason)]
                 /\ mon_pc' = "pe_dispatch"
                 /\ mon_event' = e
                 /\ UNCHANGED <<lock, mon_key, mon_src, mon_old_status,
                                began_after_stop>>
    /\ Silent
    /\ cb_seen' = NoSeen
    /\ NoteTerminal
    /\ UNCHANGED <<relaunch_pod, stop_monitor, pending_relaunch_count,
                   exist_pods, stop_pc, events_left, deleted_fired,
                   list_initial, dup, pol>>

\* self._process_node_events(status_change_flow, cur_node): the subscribers
\* receive cur_node as it is now
DispatchCallbacks ==
    /\ mon_pc = "pe_dispatch"
    /\ \E raiser \in Raisers(mon_old_status, mon_event) :
         LET k == mon_key
             cb == CallbackKind(FlowInHand)
         IN /\ last_cb' = IF cb = "none" THEN NoCb
                          ELSE [kind |-> cb, key |-> k,
                                invoked |-> IF raiser > 0 THEN raiser
                                            ELSE NumSubscribers]
            /\ cb_seen' = IF cb = "none" THEN NoSeen ELSE job_nodes[k]
            /\ deleted_fired' =
                 IF cb = "on_node_deleted"
                 THEN [deleted_fired EXCEPT ![k] = @ + 1] ELSE deleted_fired
            /\ IF raiser > 0
               THEN /\ mon_pc' = AfterException(mon_src)
                    /\ lock' = "free"
                    /\ mon_event' = NoEvent
                    /\ mon_key' = NoKey
                    /\ mon_src' = "-"
                    /\ mon_old_status' = "-"
                    /\ began_after_stop' = FALSE
               ELSE /\ mon_pc' = "pe_policy"
                    /\ UNCHANGED <<lock, mon_event, mon_key, mon_src,
                                   mon_old_status, began_after_stop>>
    /\ last_relaunch' = NoKey
    /\ rtn_result' = NoCall
    /\ UNCHANGED <<job_nodes, relaunch_pod, stop_monitor,
                   pending_relaunch_count, exist_pods, stop_pc, events_left,
                   ever_terminal, list_initial, dup, pol>>

\* should_relaunch = self._should_relaunch(cur_node, status_change_flow);
\* the pending count; the lock is released
EvaluateRelaunch ==
    /\ mon_pc = "pe_policy"
    /\ LET k == mon_key
           r == _should_relaunch(job_nodes[k], FlowInHand, relaunch_pod)
       IN /\ job_nodes' = [job_nodes EXCEPT ![k] = r.node]
          /\ pending_relaunch_count' =
               IF r.verdict /\ wait_pending_relaunch
               THEN pending_relaunch_count + 1 ELSE pending_relaunch_count
          /\ mon_pc' = IF r.verdict THEN "pe_relaunch" ELSE AfterEvent(mon_src)
          /\ mon_key' = IF r.verdict THEN mon_key ELSE NoKey
          /\ mon_src' = IF r.verdict THEN mon_src ELSE "-"
    /\ lock' = "free"
    /\ mon_event' = NoEvent
    /\ mon_old_status' = "-"
    /\ began_after_stop' = FALSE
    /\ Silent
    /\ NoteTerminal
    /\ UNCHANGED <<relaunch_pod, stop_monitor, exist_pods, stop_pc,
                   events_left, deleted_fired, list_initial, dup, pol,
                   cb_seen>>

NextSteps ==
    \/ ReconcileNext
    \/ ReconcileRelease
    \/ WatchEvent
    \/ WatchEnds
    \/ WriteStatus
    \/ DispatchCallbacks
    \/ EvaluateRelaunch
    \/ ProcessRelaunch
    \/ StopClearRelaunch
    \/ StopMarkNodes
    \/ StopSetFlag
    \/ RemoveTrainingNodes

SpecSteps == Init /\ [][NextSteps]_vars

(***************************************************************************)
(* A subscriber that calls stop() from inside its callback.                *)
(***************************************************************************)
\* _process_event has written status and exit reason and is dispatching the
\* callbacks, under self._lock; subscriber number i calls stop(), which
\* clears self._relaunch_pod and then asks for self._lock
CallbackCallsStop ==
    /\ mon_pc = "pe_locked"
    /\ stop_pc = "idle"
    /\ \E e \in EventsInFlight(mon_key, mon_src) :
       \E i \in Raisers(mon_old_status, e) \ {0} :
         LET k == mon_key
             res == LockedSection(job_nodes[k], mon_old_status, e,
                                  relaunch_pod, i)
         IN /\ job_nodes' = [job_nodes EXCEPT ![k] = res.node]
            /\ last_cb' = [kind |-> res.callback, key |-> k,
                           invoked |-> res.invoked]
            /\ deleted_fired' =
                 IF res.callback = "on_node_deleted"
                 THEN [deleted_fired EXCEPT ![k] = @ + 1] ELSE deleted_fired
    /\ relaunch_pod' = FALSE
    /\ stop_pc' = "marking"
    /\ mon_pc' = "in_callback"
    /\ last_relaunch' = NoKey
    /\ rtn_result' = NoCall
    /\ NoteTerminal
    /\ UNCHANGED <<stop_monitor, lock, pending_relaunch_count, mon_src,
                   mon_key, mon_old_status, exist_pods, events_left,
                   began_after_stop, list_initial, dup, pol, mon_event, cb_seen>>

\* the monitor thread with such a subscriber, and a caller of stop()
NextReenter ==
    \/ ReconcileNext
    \/ ReconcileRelease
    \/ WatchEvent
    \/ WatchEnds
    \/ ProcessLocked
    \/ ProcessRelaunch
    \/ CallbackCallsStop
    \/ StopClearRelaunch
    \/ StopMarkNodes
    \/ StopSetFlag

SpecReenter == Init /\ [][NextReenter]_vars

(***************************************************************************)
(* Properties.                                                             *)
(***************************************************************************)
\* the last step dispatched a callback for node k
Fired(cb, k) == cb.kind # "none" /\ cb.key = k

\* C1: SUCCEEDED is absorbing: a step taken while a node's status is
\* SUCCEEDED leaves the status SUCCEEDED and dispatches no callback for it.
C1_SucceededAbsorbing ==
    [][\A k \in NodeKeys :
          job_nodes[k].status = "SUCCEEDED"
            => /\ job_nodes'[k].status = "SUCCEEDED"
               /\ ~Fired(last_cb', k)]_vars

\* C2: in every reachable state every node has
\* relaunch_count <= max_relaunch_count + 1.
C2_RelaunchCountCapped ==
    \A k \in NodeKeys :
        job_nodes[k].relaunch_count <= job_nodes[k].max_relaunch_count + 1

\* C3: an event that enters _process_event after stop() has returned
\* dispatches no callback.
C3_NoCallbackAfterStop ==
    [][(mon_pc = "pe_locked" /\ began_after_stop) => last_cb'.kind = "none"]_vars

\* C4: once a node is released, no step dispatches a callback for it.
C4_NoCallbackOnceReleased ==
    [][\A k \in NodeKeys :
          job_nodes[k].is_released => ~Fired(last_cb', k)]_vars

\* C5: on_node_deleted is dispatched only for a node whose status was never
\* FAILED or SUCCEEDED before.
C5_DeletedOnlyIfNeverTerminal ==
    last_cb.kind = "on_node_deleted" => ~ever_terminal[last_cb.key]

\* C6: on_node_deleted is dispatched at most once per node.
C6_DeletedAtMostOnce ==
    \A k \in NodeKeys : deleted_fired[k] <= 1

C8_AbsentNodesReleased ==
    [][(mon_pc = "reconcile" /\ mon_pc' \in {"watch", "exited"})
          => /\ \A k \in NodeKeys :
                   (k \notin exist_pods /\ k \notin list_initial)
                     => job_nodes'[k].is_released
             /\ last_cb'.kind = "none"]_vars

\* a running node was released by reconciliation: nothing else releases a
\* node and leaves it RUNNING and relaunchable while stop() has not begun
C8_Witness ==
    \E k \in NodeKeys :
        /\ job_nodes[k].is_released
        /\ job_nodes[k].status = "RUNNING"
        /\ stop_pc = "idle"
        /\ mon_pc = "watch"

\* C9: the caller of remove_training_nodes receives a plan whose removed
\* nodes are exactly the names of the nodes the call marked DELETED.
C9_ReturnsRemovalPlan ==
    rtn_result.called
      => /\ ~rtn_result.returned_none
         /\ rtn_result.returned_removed_nodes = rtn_result.plan_removed_nodes

\* what remove_training_nodes does to a node it marks
MarkedFrom(after, before) ==
    after = [before EXCEPT !.critical = FALSE, !.relaunchable = FALSE,
                           !.is_released = TRUE, !.status = "DELETED"]

\* C10 as claimed: remove_training_nodes marks every PS and Worker node whose
\* status is RUNNING or PENDING and leaves every other node unchanged.
C10_MarksEveryRunningOrPending ==
    [][rtn_result'.called
          => \A k \in NodeKeys :
               IF /\ k[1] \in {"worker", "ps"}
                  /\ job_nodes[k].status \in {"RUNNING", "PENDING"}
               THEN MarkedFrom(job_nodes'[k], job_nodes[k])
               ELSE job_nodes'[k] = job_nodes[k]]_vars

\* C10 amended: remove_training_nodes marks every PS and Worker node whose
\* status is RUNNING or PENDING and that is not released yet, and leaves
\* every other node unchanged, the released RUNNING or PENDING ones included.
C10_MarksUnreleasedRunningOrPending ==
    [][rtn_result'.called
          => \A k \in NodeKeys :
               IF /\ k[1] \in {"worker", "ps"}
                  /\ job_nodes[k].status \in {"RUNNING", "PENDING"}
                  /\ ~job_nodes[k].is_released
               THEN MarkedFrom(job_nodes'[k], job_nodes[k])
               ELSE job_nodes'[k] = job_nodes[k]]_vars

\* a call has just marked a training node while a node of another role is
\* RUNNING or PENDING and keeps its flags
C10_Witness ==
    /\ rtn_result.called
    /\ rtn_result.plan_removed_nodes # {}
    /\ \E k \in NodeKeys \ TrainingNodeKeys :
          /\ job_nodes[k].status \in {"RUNNING", "PENDING"}
          /\ job_nodes[k].relaunchable
          /\ ~job_nodes[k].is_released

\* C11: when a subscriber raises during the dispatch of a transition, the
\* exception is swallowed: every subscriber of the registry is still invoked
\* for the transition and the monitor loop goes on.
C11_SubscriberErrorSwallowed ==
    last_cb.kind # "none"
      => /\ last_cb.invoked = NumSubscribers
         /\ mon_pc # "crashed"

\* the monitor takes an event off the stream or the snapshot and
\* _process_event does not get to its locked section: the event names a node
\* the index does not have
DiscardsEvent == events_left' < events_left /\ mon_pc' # "pe_locked"

\* C12: an event naming a (role, id) that is not in the index is discarded
\* and the monitor stays where it was, reading the watch stream or walking
\* the list snapshot, with the index untouched.
C12_UnknownNodeEventDiscarded ==
    [][DiscardsEvent => (mon_pc' = mon_pc /\ job_nodes' = job_nodes)]_vars

\* C13: once a subscriber has called stop() from inside a callback that
\* _process_event is dispatching, the monitor thread never leaves the
\* callback: stop() never gets past its request for the lock, which the
\* monitor thread itself holds, so the event is never finished.
C13_StopInCallbackDeadlocks ==
    [][mon_pc = "in_callback"
          => /\ mon_pc' = "in_callback"
             /\ stop_pc' = "marking"
             /\ lock' = "monitor"]_vars

\* the second subscriber has called stop() from on_node_failed and waits for
\* the lock; no event is left for the watcher to deliver
C13_Witness ==
    /\ mon_pc = "in_callback"
    /\ stop_pc = "marking"
    /\ lock = "monitor"
    /\ ~relaunch_pod
    /\ last_cb.kind = "on_node_failed"
    /\ last_cb.invoked = 2
    /\ events_left = 0

\* C14: once stop() has returned, every node of the index has critical =
\* false and is_released = true and all_critical_node_completed() is true,
\* in that state and in every later one, whatever is processed afterwards.
C14_StoppedNodesStayReleased ==
    stop_pc = "done"
      => /\ \A k \in NodeKeys :
               ~job_nodes[k].critical /\ job_nodes[k].is_released
         /\ all_critical_node_completed(job_nodes)

\* after stop() returned an event has put a node to RUNNING and
\* on_node_started was dispatched for it
C14_Witness ==
    /\ stop_pc = "done"
    /\ last_cb.kind = "on_node_started"
    /\ job_nodes[last_cb.key].status = "RUNNING"
    /\ InitCritical(last_cb.key)

\* the verdict the policy of the relaunch decision prescribes for a node, a
\* flow and the relaunch flag, as the conjunction of what each of its steps
\* lets through
PolicyAllows(node, flow, enabled) ==
    /\ flow.should_relaunch
    /\ enabled
    /\ node.relaunchable
    /\ node.exit_reason # "FATAL_ERROR"
    /\ node.exit_reason = "OOM"
         => /\ node.memory <= MAX_MEMORY
            /\ node.relaunch_count < node.max_relaunch_count
    /\ node.exit_reason \notin {"FATAL_ERROR", "OOM", "KILLED"}
         => node.relaunch_count <= node.max_relaunch_count

\* C15: _should_relaunch returns exactly the verdict of the five-step policy;
\* it adds one to relaunch_count iff the verdict is true and leaves the count
\* as it was otherwise; a true verdict on OOM sets is_recovered_oom.
C15_ShouldRelaunchFollowsPolicy ==
    pol.stage = "done"
      => LET before == pol.before
             after == job_nodes[pol.key]
         IN /\ pol.verdict = PolicyAllows(before, pol.flow, relaunch_pod)
            /\ after.relaunch_count =
                 before.relaunch_count + (IF pol.verdict THEN 1 ELSE 0)
            /\ (pol.verdict /\ before.exit_reason = "OOM")
                 => after.is_recovered_oom

\* _should_relaunch has let an OOM node with a budget left through and has
\* counted the relaunch
C15_Witness ==
    /\ pol.stage = "done"
    /\ pol.verdict
    /\ pol.before.exit_reason = "OOM"
    /\ pol.before.relaunch_count = 0
    /\ job_nodes[pol.key].relaunch_count = 1
    /\ job_nodes[pol.key].is_recovered_oom

\* C16: an event for which the table has no entry for (old_status,
\* event_type, new_status) is dropped: the node's status, exit_reason and
\* relaunch_count stay as they were, no callback is dispatched and no
\* relaunch is handed off; an event with an entry leaves the node's status
\* equal to the entry's to_status.
C16_UnmatchedEventDropped ==
    [][(dup.stage = "fresh" /\ dup'.stage = "once")
          => LET e == dup'.event
                 k == e.key
                 flow == get_node_state_flow(job_nodes[k].status,
                                             e.event_type, e.status)
             IN IF flow = NoFlow
                THEN /\ job_nodes'[k].status = job_nodes[k].status
                     /\ job_nodes'[k].exit_reason = job_nodes[k].exit_reason
                     /\ job_nodes'[k].relaunch_count = job_nodes[k].relaunch_count
                     /\ last_cb'.kind = "none"
                     /\ last_relaunch' = NoKey
                ELSE job_nodes'[k].status = flow.to_status]_vars

\* C17: once stop() has set self._stop_monitor the monitor hands no further
\* event to _process_event, from the watch stream or from a list snapshot;
\* only the event already in flight is finished.
C17_NoEventAfterStopFlag ==
    [][stop_monitor => events_left' = events_left]_vars

\* C18: node fields and self._pending_relaunch_count are written only by a
\* thread that holds self._lock: while the monitor thread is inside the
\* locked section of _process_event, a step of another thread (stop(),
\* remove_training_nodes()) changes no node and not the counter, so the
\* event in hand cannot overwrite a node that was marked DELETED and released
\* after the event read its old status.
C18_NoWriteWhileLockHeld ==
    [][(lock = "monitor" /\ mon_pc' = mon_pc)
          => /\ job_nodes' = job_nodes
             /\ pending_relaunch_count' = pending_relaunch_count]_vars

\* the status a subscriber expects to find on the node it is handed
StatusAnnouncedBy(kind) ==
    CASE kind = "on_node_started" -> "RUNNING"
      [] kind = "on_node_succeeded" -> "SUCCEEDED"
      [] kind = "on_node_failed" -> "FAILED"
      [] kind = "on_node_deleted" -> "DELETED"

\* C19: for an event with a matching transition the callbacks are dispatched
\* after status and exit_reason are written and before the relaunch policy
\* runs, and the hand-off to _relaunch_typed_pod comes last: the callback
\* matches the flow's to_status, the subscribers find on the node the new
\* status and the event's exit_reason, relaunch_count is counted up only
\* after the dispatch, and only a finished policy run is followed by a
\* hand-off.
C19_CallbacksSeeNewStatus ==
    [][/\ (mon_pc = "pe_dispatch" /\ last_cb'.kind # "none")
            => /\ StatusAnnouncedBy(last_cb'.kind) = FlowInHand.to_status
               /\ cb_seen'.status = FlowInHand.to_status
               /\ cb_seen'.exit_reason = mon_event.exit_reason
       /\ (mon_pc = "pe_policy" /\ mon_pc' # "pe_policy" /\ cb_seen # NoSeen)
            => job_nodes'[mon_key].relaunch_count =
                 cb_seen.relaunch_count
                   + (IF mon_pc' = "pe_relaunch" THEN 1 ELSE 0)
       /\ last_relaunch' # NoKey => mon_pc = "pe_relaunch"]_vars

\* C20 as claimed: once stop() has returned, no step hands a node to
\* _relaunch_typed_pod.
C20_NoRelaunchAfterStop ==
    [][stop_pc = "done" => last_relaunch' = NoKey]_vars

\* C20 amended: once stop() has cleared self._relaunch_pod, no event gets a
\* positive relaunch verdict; a relaunch handed off after stop() returned is
\* that of the event in flight, decided before the flag was cleared.
C20_NoRelaunchDecidedAfterStop ==
    [][(~relaunch_pod /\ mon_pc # "pe_relaunch") => mon_pc' # "pe_relaunch"]_vars

\* after stop() returned an event has taken a relaunchable node to FAILED
\* with exit reason KILLED, on_node_failed was dispatched, and the monitor
\* goes on without a relaunch
C20_Witness ==
    /\ stop_pc = "done"
    /\ ~relaunch_pod
    /\ last_cb.kind = "on_node_failed"
    /\ job_nodes[last_cb.key].exit_reason = "KILLED"
    /\ job_nodes[last_cb.key].relaunchable
    /\ mon_pc \in {"watch", "reconcile"}

====
